---- MODULE Spec2Model ----
(***************************************************************************)
(* Model of js-sdk/ConstantFlowAgreementV1Helper.js: the flow lifecycle    *)
(* calls (createFlow, updateFlow, deleteFlow), the reduction of a           *)
(* FlowUpdated event batch to the latest flows (getLatestFlows) and the     *)
(* listing of an account's flows (listFlows), which performs up to two      *)
(* sequential log fetches against a ledger that keeps appending events.     *)
(***************************************************************************)
EXTENDS Integers, Sequences, FiniteSets, TLC

\* log          the ledger's append-only FlowUpdated event log
\* lastCall     the last call handed to host.callAgreement, with its from
\* pc           where the listFlows call stands: idle, awaiting the inbound
\*              or the outbound fetch, returned, or threw
\* accountNorm, onlyInFlows, onlyOutFlows   the arguments of that call
\* result       the call's local result object
\* retval       what the caller received (NoValue while it received nothing)
\* error        the failure the caller received
\* fetches      getPastEvents calls made by the call so far
\* flows, latest, called   argument and value of a direct getLatestFlows call
VARIABLES log, lastCall, pc, accountNorm, onlyInFlows, onlyOutFlows,
          result, retval, error, fetches, flows, latest, called

vars == <<log, lastCall, pc, accountNorm, onlyInFlows, onlyOutFlows,
          result, retval, error, fetches, flows, latest, called>>

listVars == <<pc, accountNorm, onlyInFlows, onlyOutFlows, result, retval,
              error, fetches>>

pureVars == <<flows, latest, called>>

(* ---------------------------- bounds ---------------------------------- *)

\* longest ledger log explored
MaxLog == 2
\* longest batch handed directly to getLatestFlows
MaxLen == 3

(* ---------------------------- domains --------------------------------- *)

Accounts == {"0xA", "0xB"}
AddressParams == {"alice", "bob"}
TokenParams == {"dai"}
FlowRateParams == {3, 5}
EventRates == {0, 3, 5}
Undefined == "undefined"
NoCall == [method |-> "none"]
NoValue == [novalue |-> TRUE]
NoError == "noerror"

\* this._sf.utils.normalizeAddressParam: resolves a parameter to an address
normalizeAddressParam(p) ==
    CASE p = "alice" -> "0xA"
      [] p = "bob" -> "0xB"
      [] OTHER -> p

\* this._sf.utils.normalizeTokenParam: resolves a parameter to a token address
normalizeTokenParam(p) ==
    CASE p = "dai" -> "0xT"
      [] OTHER -> p

\* this._sf.utils.normalizeFlowRateParam: the rate as the ledger takes it
normalizeFlowRateParam(r) == r

(* ------------------------ flowRate.toString() ------------------------- *)

Digit(d) ==
    CASE d = 0 -> "0" [] d = 1 -> "1" [] d = 2 -> "2" [] d = 3 -> "3"
      [] d = 4 -> "4" [] d = 5 -> "5" [] d = 6 -> "6" [] d = 7 -> "7"
      [] d = 8 -> "8" [] d = 9 -> "9"

RECURSIVE NatToString(_)
NatToString(n) ==
    IF n < 10 THEN Digit(n) ELSE NatToString(n \div 10) \o Digit(n % 10)

\* i.args.flowRate.toString(): canonical decimal rendering of the rate
toString(n) == IF n < 0 THEN "-" \o NatToString(-n) ELSE NatToString(n)

(* ------------------------- getLatestFlows ----------------------------- *)

\* a key that leaves the receiver out
FlowKeySenderOnly(i) == i.sender \o ":" \o i.sender

\* the property name the event is stored under: sender + ":" + receiver
FlowKey(i) == i.sender \o ":" \o i.receiver

EmptyAcc == [order |-> <<>>, val |-> <<>>]

\* a callback that keeps the first event written under a key
ReduceStepFirstWins(acc, i) ==
    LET k == FlowKey(i) IN
    IF k \in DOMAIN acc.val
    THEN acc
    ELSE [order |-> Append(acc.order, k), val |-> (k :> i) @@ acc.val]

\* the reduce callback: acc[key] = i; a new key is appended to the object's
\* property order, an existing key keeps its place and takes the new value
ReduceStep(acc, i) ==
    LET k == FlowKey(i) IN
    IF k \in DOMAIN acc.val
    THEN [acc EXCEPT !.val = (k :> i) @@ acc.val]
    ELSE [order |-> Append(acc.order, k), val |-> (k :> i) @@ acc.val]

RECURSIVE Reduce(_, _)
Reduce(fs, acc) ==
    IF fs = <<>> THEN acc ELSE Reduce(Tail(fs), ReduceStep(acc, Head(fs)))

\* Object.values: the values in property insertion order
ObjectValues(acc) == [n \in 1..Len(acc.order) |-> acc.val[acc.order[n]]]

\* a filter that lets closed flows through
IsOpenKeepAll(i) == TRUE

\* the filter predicate i => i.args.flowRate.toString() != "0"
IsOpen(i) == toString(i.flowRate) # "0"

getLatestFlows(fs) == SelectSeq(ObjectValues(Reduce(fs, EmptyAcc)), IsOpen)

\* the .map(f => ({sender, receiver, flowRate: f.args.flowRate.toString()}))
Project(fs) ==
    [n \in 1..Len(fs) |->
        [sender |-> fs[n].sender, receiver |-> fs[n].receiver,
         flowRate |-> toString(fs[n].flowRate)]]

(* ------------- direct calls of the static getLatestFlows --------------- *)

Positions == 1..MaxLen

Events ==
    [token : {"0xT"}, sender : Accounts, receiver : Accounts,
     flowRate : EventRates, pos : Positions]

\* positions are ranks: a batch that uses position p > 1 also uses p - 1
DensePositions(fs) ==
    LET used == {fs[n].pos : n \in 1..Len(fs)} IN used = 1..Cardinality(used)

ListIdle ==
    /\ log = <<>>
    /\ lastCall = NoCall
    /\ pc = "idle"
    /\ accountNorm = Undefined
    /\ onlyInFlows = FALSE
    /\ onlyOutFlows = FALSE
    /\ result = <<>>
    /\ retval = NoValue
    /\ error = NoError
    /\ fetches = 0

InitPure ==
    /\ ListIdle
    /\ \E m \in 0..MaxLen : flows \in [1..m -> Events]
    /\ DensePositions(flows)
    /\ latest = <<>>
    /\ called = FALSE

CallGetLatestFlows ==
    /\ ~called
    /\ called' = TRUE
    /\ latest' = getLatestFlows(flows)
    /\ UNCHANGED <<flows, log, lastCall>>
    /\ UNCHANGED listVars

NextPure == CallGetLatestFlows

SpecPure == InitPure /\ [][NextPure]_vars

(* ------------------------------ ledger -------------------------------- *)

\* the rate the ledger holds for the flow from s to r: that of the last
\* event logged for it, 0 when there is none
RECURSIVE LedgerRate(_, _, _)
LedgerRate(lg, s, r) ==
    IF lg = <<>> THEN 0
    ELSE LET e == lg[Len(lg)] IN
         IF e.sender = s /\ e.receiver = r THEN e.flowRate
         ELSE LedgerRate(SubSeq(lg, 1, Len(lg) - 1), s, r)

\* the ledger holds an open flow from s to r
FlowExists(lg, s, r) == LedgerRate(lg, s, r) # 0

\* the ledger opens only a flow that is not open, and updates or closes
\* only one that is
LedgerAccepts(lg, call) ==
    CASE call.method = "createFlow" -> ~FlowExists(lg, call.from, call.receiver)
      [] call.method = "updateFlow" -> FlowExists(lg, call.from, call.receiver)
      [] call.method = "deleteFlow" -> FlowExists(lg, call.sender, call.receiver)

\* the FlowUpdated event the ledger logs for an accepted call
FlowUpdated(lg, call) ==
    IF call.method = "deleteFlow"
    THEN [token |-> call.token, sender |-> call.sender,
          receiver |-> call.receiver, flowRate |-> 0, pos |-> Len(lg) + 1]
    ELSE [token |-> call.token, sender |-> call.from,
          receiver |-> call.receiver, flowRate |-> call.flowRate,
          pos |-> Len(lg) + 1]

\* host.callAgreement: the call is recorded; an accepted call appends its
\* event to the log, a rejected one leaves the log alone
callAgreement(call) ==
    /\ Len(log) < MaxLog
    /\ lastCall' = call
    /\ log' = IF LedgerAccepts(log, call)
              THEN Append(log, FlowUpdated(log, call)) ELSE log

\* getPastEvents("FlowUpdated", {fromBlock: 0, toBlock: "latest", filter}):
\* the logged events that match every field of the filter, in log order
getPastEvents(lg, filter) ==
    SelectSeq(lg, LAMBDA e : \A k \in DOMAIN filter : e[k] = filter[k])

FetchFailures == {"network error", "node rejection"}

(* ------------------------- lifecycle calls ---------------------------- *)

createFlow(superToken, sender, receiver, flowRate) ==
    LET superTokenNorm == normalizeTokenParam(superToken)
        senderNorm == normalizeAddressParam(sender)
        receiverNorm == normalizeAddressParam(receiver)
        flowRateNorm == normalizeFlowRateParam(flowRate)
    IN  /\ callAgreement([method |-> "createFlow", token |-> superTokenNorm,
                          receiver |-> receiverNorm,
                          flowRate |-> flowRateNorm, from |-> senderNorm])
        /\ UNCHANGED listVars
        /\ UNCHANGED pureVars

updateFlow(superToken, sender, receiver, flowRate) ==
    LET superTokenNorm == normalizeTokenParam(superToken)
        senderNorm == normalizeAddressParam(sender)
        receiverNorm == normalizeAddressParam(receiver)
        flowRateNorm == normalizeFlowRateParam(flowRate)
    IN  /\ callAgreement([method |-> "updateFlow", token |-> superTokenNorm,
                          receiver |-> receiverNorm,
                          flowRate |-> flowRateNorm, from |-> senderNorm])
        /\ UNCHANGED listVars
        /\ UNCHANGED pureVars

\* a close that always acts as the sender
byNormSenderOnly(by, senderNorm) == senderNorm

\* (by && await normalizeAddressParam(by)) || senderNorm
byNorm(by, senderNorm) ==
    IF by # Undefined THEN normalizeAddressParam(by) ELSE senderNorm

deleteFlow(superToken, sender, receiver, by) ==
    LET superTokenNorm == normalizeTokenParam(superToken)
        senderNorm == normalizeAddressParam(sender)
        receiverNorm == normalizeAddressParam(receiver)
    IN  /\ callAgreement([method |-> "deleteFlow", token |-> superTokenNorm,
                          sender |-> senderNorm, receiver |-> receiverNorm,
                          from |-> byNorm(by, senderNorm)])
        /\ UNCHANGED listVars
        /\ UNCHANGED pureVars

(* ----------------------------- listFlows ------------------------------ *)

\* a filter on the wrong role
InFilterBySender(token, account) == [token |-> token, sender |-> account]

\* filter: {token: superTokenNorm, receiver: accountNorm}
InFilter(token, account) == [token |-> token, receiver |-> account]

\* filter: {token: superTokenNorm, sender: accountNorm}
OutFilter(token, account) == [token |-> token, sender |-> account]

\* a call that fetches the outbound events whatever the flags say
AfterInAlwaysOut(oi) == "awaitOut"

\* if (!onlyInFlows) { ...outbound fetch... } return result;
AfterIn(oi) == IF ~oi THEN "awaitOut" ELSE "returned"

\* a call that fetches the inbound events whatever the flags say
AfterStartAlwaysIn(oi, oo) == "awaitIn"

\* if (!onlyOutFlows) { ...inbound fetch... } and then the rest
AfterStart(oi, oo) == IF ~oo THEN "awaitIn" ELSE AfterIn(oi)

\* the call starts: both parameters are normalised, result = {} and the
\* first fetch that the flags ask for is issued
listFlows(superToken, account, oi, oo) ==
    /\ pc \in {"idle", "returned", "threw"}
    /\ accountNorm' = normalizeAddressParam(account)
    /\ onlyInFlows' = oi
    /\ onlyOutFlows' = oo
    /\ result' = <<>>
    /\ error' = NoError
    /\ fetches' = 0
    /\ pc' = AfterStart(oi, oo)
    /\ retval' = IF AfterStart(oi, oo) = "returned" THEN <<>> ELSE NoValue
    /\ UNCHANGED <<log, lastCall>>
    /\ UNCHANGED pureVars

\* the value the inbound fetch resolves to, reduced and projected
inFlowsOf(lg, account) ==
    Project(getLatestFlows(getPastEvents(lg, InFilter("0xT", account))))

outFlowsOf(lg, account) ==
    Project(getLatestFlows(getPastEvents(lg, OutFilter("0xT", account))))

\* the inbound fetch resolves: result.inFlows is set, then the outbound
\* fetch is issued or the result returned
InFetched ==
    /\ pc = "awaitIn"
    /\ LET r == ("inFlows" :> inFlowsOf(log, accountNorm)) @@ result IN
        /\ result' = r
        /\ retval' = IF AfterIn(onlyInFlows) = "returned" THEN r ELSE NoValue
    /\ fetches' = fetches + 1
    /\ pc' = AfterIn(onlyInFlows)
    /\ UNCHANGED <<log, lastCall, accountNorm, onlyInFlows, onlyOutFlows, error>>
    /\ UNCHANGED pureVars

\* a failed fetch that is swallowed: the call returns what it has so far
RejectedReturningPartial(f) ==
    /\ pc \in {"awaitIn", "awaitOut"}
    /\ fetches' = fetches + 1
    /\ pc' = "threw"
    /\ error' = f
    /\ retval' = result
    /\ result' = <<>>
    /\ UNCHANGED <<log, lastCall, accountNorm, onlyInFlows, onlyOutFlows>>
    /\ UNCHANGED pureVars

\* a fetch rejects: the await throws, nothing catches it, the caller gets
\* the failure and no result (the local result object is dropped)
Rejected(f) ==
    /\ pc \in {"awaitIn", "awaitOut"}
    /\ fetches' = fetches + 1
    /\ pc' = "threw"
    /\ error' = f
    /\ retval' = NoValue
    /\ result' = <<>>
    /\ UNCHANGED <<log, lastCall, accountNorm, onlyInFlows, onlyOutFlows>>
    /\ UNCHANGED pureVars

\* the outbound fetch resolves: result.outFlows is set and result returned
OutFetched ==
    /\ pc = "awaitOut"
    /\ LET r == ("outFlows" :> outFlowsOf(log, accountNorm)) @@ result IN
        /\ result' = r
        /\ retval' = r
    /\ fetches' = fetches + 1
    /\ pc' = "returned"
    /\ UNCHANGED <<log, lastCall, accountNorm, onlyInFlows, onlyOutFlows, error>>
    /\ UNCHANGED pureVars

(* --------------------------- specification ---------------------------- *)

Init ==
    /\ ListIdle
    /\ flows = <<>>
    /\ latest = <<>>
    /\ called = FALSE

CreateFlow ==
    \E s \in AddressParams, r \in AddressParams, fr \in FlowRateParams :
        createFlow("dai", s, r, fr)

UpdateFlow ==
    \E s \in AddressParams, r \in AddressParams, fr \in FlowRateParams :
        updateFlow("dai", s, r, fr)

DeleteFlow ==
    \E s \in AddressParams, r \in AddressParams,
       by \in AddressParams \cup {Undefined} :
        deleteFlow("dai", s, r, by)

ListFlows ==
    \E a \in AddressParams, oi \in BOOLEAN, oo \in BOOLEAN :
        listFlows("dai", a, oi, oo)

FetchRejected == \E f \in FetchFailures : Rejected(f)

Next ==
    \/ CreateFlow
    \/ UpdateFlow
    \/ DeleteFlow
    \/ ListFlows
    \/ InFetched
    \/ OutFetched
    \/ FetchRejected

Spec == Init /\ [][Next]_vars

\* the lifecycle calls alone, no listing in progress
NextLifecycle ==
    \/ CreateFlow
    \/ UpdateFlow
    \/ DeleteFlow

SpecLifecycle == Init /\ [][NextLifecycle]_vars

(* ============== properties of getLatestFlows (SpecPure) =============== *)

C2_ClosureExclusion ==
    called =>
      /\ \A j \in 1..Len(latest) :
           /\ latest[j].flowRate # 0
           /\ Project(latest)[j].flowRate # "0"
      /\ \A n \in 1..Len(flows) :
           LET e == flows[n]
               SameKey(x) == x.sender = e.sender /\ x.receiver = e.receiver
           IN  ((\A m \in (n + 1)..Len(flows) : ~SameKey(flows[m]))
                /\ e.flowRate = 0)
               => \A j \in 1..Len(latest) : ~SameKey(latest[j])

\* a key opened and then closed is dropped while another key is listed
C2_Witness ==
    /\ called
    /\ Len(latest) >= 1
    /\ \E n \in 1..Len(flows), m \in 1..Len(flows) :
         /\ m < n
         /\ flows[m].sender = flows[n].sender
         /\ flows[m].receiver = flows[n].receiver
         /\ flows[m].flowRate # 0
         /\ flows[n].flowRate = 0
         /\ \A j \in 1..Len(latest) :
              ~(latest[j].sender = flows[n].sender
                /\ latest[j].receiver = flows[n].receiver)

\* C8: on a batch listed in non-decreasing position, the entry of a key is
\* the last event of that key in the batch, no event of the key has a
\* greater position, a key whose last event is a closure has no entry, and
\* the two worked examples come out as rate 3 and as absent
C8_OrderedBatchReduction ==
    LET Ev(rate, p) == [token |-> "0xT", sender |-> "0xA", receiver |-> "0xB",
                        flowRate |-> rate, pos |-> p]
        Sorted == \A n \in 1..Len(flows), m \in 1..Len(flows) :
                     n < m => flows[n].pos <= flows[m].pos
    IN  (called /\ Sorted) =>
          /\ \A n \in 1..Len(flows) :
               LET e == flows[n]
                   SameKey(x) == x.sender = e.sender /\ x.receiver = e.receiver
               IN  (\A m \in (n + 1)..Len(flows) : ~SameKey(flows[m]))
                   => /\ \A m \in 1..Len(flows) :
                           SameKey(flows[m]) => flows[m].pos <= e.pos
                      /\ e.flowRate # 0 =>
                           Cardinality({j \in 1..Len(latest) : latest[j] = e}) = 1
                      /\ \A j \in 1..Len(latest) :
                           SameKey(latest[j]) => latest[j] = e
          /\ flows = <<Ev(5, 1), Ev(0, 2), Ev(3, 3)>> =>
               Project(latest) = <<[sender |-> "0xA", receiver |-> "0xB",
                                    flowRate |-> "3"]>>
          /\ flows = <<Ev(5, 1), Ev(0, 2)>> => latest = <<>>

\* the opened, closed and re-opened key, listed with rate 3
C8_Witness ==
    /\ called
    /\ Len(flows) = 3
    /\ \A n \in 1..3 : flows[n].sender = "0xA" /\ flows[n].receiver = "0xB"
                       /\ flows[n].pos = n
    /\ <<flows[1].flowRate, flows[2].flowRate, flows[3].flowRate>> = <<5, 0, 3>>
    /\ Len(latest) = 1
    /\ latest[1].flowRate = 3

\* C9: the output holds at most one entry per ordered pair (sender,
\* receiver): exactly one for a pair whose last event is open, none
\* otherwise, so (A, B) and (B, A) each keep their own entry
C9_OneEntryPerKey ==
    called =>
      \A s \in Accounts, r \in Accounts :
        LET OfKey(x) == x.sender = s /\ x.receiver = r
            open == \E n \in 1..Len(flows) :
                       /\ OfKey(flows[n])
                       /\ flows[n].flowRate # 0
                       /\ \A m \in (n + 1)..Len(flows) : ~OfKey(flows[m])
        IN  Cardinality({j \in 1..Len(latest) : OfKey(latest[j])})
              = IF open THEN 1 ELSE 0

\* several events for (A, B), and (A, B) and (B, A) both listed
C9_Witness ==
    /\ called
    /\ Cardinality({n \in 1..Len(flows) :
          flows[n].sender = "0xA" /\ flows[n].receiver = "0xB"}) >= 2
    /\ \E j \in 1..Len(latest), k \in 1..Len(latest) :
         /\ latest[j].sender = "0xA" /\ latest[j].receiver = "0xB"
         /\ latest[k].sender = "0xB" /\ latest[k].receiver = "0xA"

(* ================== properties of the calls (Spec) ==================== *)

\* C3: a returned result has the field inFlows exactly when onlyOutFlows is
\* not set and the field outFlows exactly when onlyInFlows is not set; a
\* requested direction with nothing open is an empty sequence, a direction
\* not requested is no field at all
C3_FieldPresence ==
    /\ [](pc = "returned" =>
            DOMAIN retval = (IF ~onlyOutFlows THEN {"inFlows"} ELSE {})
                              \cup (IF ~onlyInFlows THEN {"outFlows"} ELSE {}))
    /\ [][(InFetched
           /\ \A n \in 1..Len(log) :
                log[n].receiver = accountNorm
                => LedgerRate(log, log[n].sender, accountNorm) = 0)
          => ("inFlows" \in DOMAIN result' /\ result'.inFlows = <<>>)]_vars
    /\ [][(OutFetched
           /\ \A n \in 1..Len(log) :
                log[n].sender = accountNorm
                => LedgerRate(log, accountNorm, log[n].receiver) = 0)
          => ("outFlows" \in DOMAIN result' /\ result'.outFlows = <<>>)]_vars

\* only inbound requested, every inbound flow closed again: inFlows is the
\* empty sequence and outFlows is no field
C3_Witness ==
    /\ pc = "returned"
    /\ onlyInFlows /\ ~onlyOutFlows
    /\ \E n \in 1..Len(log) : log[n].receiver = accountNorm
    /\ \E n \in 1..Len(log) : log[n].sender = accountNorm /\ log[n].flowRate # 0
    /\ DOMAIN retval = {"inFlows"}
    /\ retval.inFlows = <<>>

\* C4: every entry of inFlows has the queried account as receiver and every
\* entry of outFlows has it as sender
C4_DirectionPartition ==
    pc = "returned" =>
      /\ "inFlows" \in DOMAIN retval =>
           \A j \in 1..Len(retval.inFlows) :
             retval.inFlows[j].receiver = accountNorm
      /\ "outFlows" \in DOMAIN retval =>
           \A j \in 1..Len(retval.outFlows) :
             retval.outFlows[j].sender = accountNorm

\* both lists hold a flow with the other account, so each fetch left out
\* an event of the log
C4_Witness ==
    /\ pc = "returned"
    /\ DOMAIN retval = {"inFlows", "outFlows"}
    /\ \E j \in 1..Len(retval.inFlows) :
         retval.inFlows[j].sender # accountNorm
    /\ \E j \in 1..Len(retval.outFlows) :
         retval.outFlows[j].receiver # accountNorm

\* C5 as stated: when both directions are requested the flow from the
\* queried account to itself is in inFlows exactly when it is in outFlows,
\* and with the same rate
C5_SelfFlowInBoth ==
    (pc = "returned" /\ DOMAIN retval = {"inFlows", "outFlows"}) =>
      LET Self(fs) == {fs[j] : j \in {k \in 1..Len(fs) :
                          fs[k].sender = accountNorm
                          /\ fs[k].receiver = accountNorm}}
      IN  Self(retval.inFlows) = Self(retval.outFlows)

\* C6: deleteFlow calls the ledger acting as the normalised by when by is
\* given and as the normalised sender when it is not, and the call names
\* the flow (sender, receiver)
C6_DeleteActingIdentity ==
    [][\A s \in AddressParams, r \in AddressParams,
          by \in AddressParams \cup {Undefined} :
          deleteFlow("dai", s, r, by) =>
            /\ lastCall'.method = "deleteFlow"
            /\ lastCall'.from = IF by = Undefined
                                THEN normalizeAddressParam(s)
                                ELSE normalizeAddressParam(by)
            /\ lastCall'.sender = normalizeAddressParam(s)
            /\ lastCall'.receiver = normalizeAddressParam(r)]_vars

\* a close issued by a third party that the ledger logged for the sender
C6_Witness ==
    /\ lastCall.method = "deleteFlow"
    /\ lastCall.from # lastCall.sender
    /\ lastCall.from # lastCall.receiver
    /\ Len(log) >= 2
    /\ log[Len(log)].flowRate = 0
    /\ log[Len(log)].sender = lastCall.sender
    /\ log[Len(log)].receiver = lastCall.receiver

\* C7: a call whose fetch failed hands the caller that failure and no
\* result, also when the inbound fetch had succeeded; a returned call
\* carries no failure; no direction is fetched more than once
C7_NoPartialResult ==
    /\ pc = "threw" => (retval = NoValue /\ error \in FetchFailures)
    /\ pc = "returned" => (retval # NoValue /\ error = NoError)
    /\ fetches <= (IF ~onlyOutFlows THEN 1 ELSE 0)
                    + (IF ~onlyInFlows THEN 1 ELSE 0)

\* both directions requested, the inbound fetch succeeded with an open
\* flow, the outbound fetch failed
C7_Witness ==
    /\ pc = "threw"
    /\ ~onlyInFlows /\ ~onlyOutFlows
    /\ fetches = 2
    /\ retval = NoValue
    /\ \E n \in 1..Len(log) :
         log[n].receiver = accountNorm /\ log[n].flowRate # 0

\* C10: with onlyInFlows and onlyOutFlows both set the call returns at once
\* a result with no field, fetches nothing and raises nothing
C10_BothFlagsSet ==
    (pc # "idle" /\ onlyInFlows /\ onlyOutFlows) =>
      /\ pc = "returned"
      /\ DOMAIN retval = {}
      /\ fetches = 0
      /\ error = NoError

\* both flags set for an account with an open flow in each direction
C10_Witness ==
    /\ pc = "returned"
    /\ onlyInFlows /\ onlyOutFlows
    /\ DOMAIN retval = {}
    /\ \E a \in Accounts :
         /\ a # accountNorm
         /\ FlowExists(log, a, accountNorm)
         /\ FlowExists(log, accountNorm, a)

====
